---- MODULE Spec2Model ----
(***************************************************************************)
(* The client-side SSE chat streaming consumers of the repository:         *)
(*   "cli"    APITester.send_message_streaming      (src/test_cli.py)      *)
(*   "test"   test_streaming_with_real_content      (src/tests/...)        *)
(*   "viewer" the chat send handler of main         (src/8505-viewer/...)  *)
(*   "quick"  test_quick_response                   (src/tests/...)        *)
(* Each invocation issues one POST to /api/chat and then decodes the       *)
(* response body line by line.  The server and the transport are the       *)
(* environment: the status, the body, the pace of the lines and the        *)
(* transport exceptions are chosen nondeterministically.                   *)
(*                                                                         *)
(* Text is a sequence of one-character strings.  A response line is a      *)
(* record [raw, data]: raw is "empty" (b''), "plain" (no 'data: ' prefix), *)
(* "invalid" (prefixed, json.loads raises JSONDecodeError) or "object"     *)
(* (prefixed, json.loads returns the dict `data`).                         *)
(***************************************************************************)
EXTENDS Integers, Sequences, FiniteSets, TLC

VARIABLES
    pc,             \* "idle" | "posted" | "reading" | "returned"
    client,         \* which consumer is running
    message,        \* the message argument / user_input
    session,        \* current_session_id / active_chat_session / session_id
    body,           \* the lines response.iter_lines() has yielded so far
    full_response,  \* full_response / claude_response
    result,         \* return value ("true", "false"), "raise", or the viewer's effect
    printed,        \* the last message printed / shown by the invocation
    errmsg,         \* the text printed after "Erro no streaming: "
    warnings,       \* number of "Erro ao parsear JSON" warnings printed
    exit,           \* the exit path the invocation took
    calls,          \* invocations started
    posts,          \* requests.post calls to /api/chat
    sent,           \* requests.post calls to /api/chat by this invocation
    clock,          \* seconds since this invocation's POST was issued
    deleted,        \* DELETE /api/session requests by this invocation
    cleanup,        \* what the finally block's DELETE did ("" when none ran)
    conn,           \* the response's connection: "none" | "open" | "closed"
    \* two calls of send_message_streaming running at once on one APITester
    frames,         \* the locals of each call: pc, body, full_response, ...
    \* one APITester and the operations called on it, one after the other
    current_session_id,  \* self.current_session_id ("None" for None)
    last,           \* the last operation: name, value returned, requests sent
    gone,           \* the session ids a DELETE has removed from the server
    server,         \* what the server did with the request of the last operation
    ops,            \* operations called so far
    \* run_full_test on an APITester of its own
    run,            \* its position, its `results` list, the requests sent so far
    \* the debug log of the viewer dashboard and of the chat app
    app,            \* which of the two programs: "viewer" | "chat"
    debug_logs,     \* st.session_state.debug_logs, each entry by its ordinal
    debug_mode,     \* st.session_state.debug_mode
    appended,       \* entries appended so far (the ordinal of the newest)
    logcall,        \* the level passed to the last add_debug_log call
    \* the session state of the chat app and the SDK client behind it
    messages,       \* st.session_state.messages
    sdk_client,     \* st.session_state.client: 0 for None, else which instance
    connected,      \* st.session_state.connected
    total_tokens,   \* st.session_state.total_tokens
    total_cost,     \* st.session_state.total_cost
    performance_metrics,  \* st.session_state.performance_metrics
    sdk,            \* calls made to the SDK: clients created, connect(), ...
    chat            \* the last handler run: name, inputs, value returned

svars == <<pc, client, message, session, body, full_response, result,
           printed, errmsg, warnings, exit, calls, posts, sent, clock, deleted,
           cleanup, conn>>

cvars == <<frames>>

avars == <<current_session_id, last, gone, server, ops>>

fvars == <<run>>

\* the variables of the programs other than the streaming consumers and
\* the APITester
dvars == <<app, debug_logs, debug_mode, appended, logcall>>

hvars == <<messages, sdk_client, connected, total_tokens, total_cost,
           performance_metrics, sdk, chat>>

zvars == <<dvars, hvars>>

xvars == <<fvars, zvars>>

vars == <<svars, cvars, avars, xvars>>

---------------------------------------------------------------------------
(* Bounds of the model *)

MaxLines == 3
MaxCalls == 2
SlowLine == 25

(* Constants of the program *)

timeout_cli == 30
timeout_test == 60
timeout_viewer == 60
MinRealContent == 10
HTTP_OK == 200

---------------------------------------------------------------------------
(* Inputs *)

NoData == [k \in {} |-> ""]

Frag5 == <<"a", "a", "a", "a", "a">>
Frag6 == <<"b", "b", "b", "b", "b", "b">>
Blank == <<" ">>

L_empty == [raw |-> "empty", data |-> NoData]
L_plain == [raw |-> "plain", data |-> NoData]
L_invalid == [raw |-> "invalid", data |-> NoData]
L_content(t) == [raw |-> "object", data |-> ("type" :> "content") @@ ("content" :> t)]
L_content_absent == [raw |-> "object", data |-> ("type" :> "content")]
L_done == [raw |-> "object", data |-> ("type" :> "done")]
L_error(m) == [raw |-> "object", data |-> ("type" :> "error") @@ ("error" :> m)]
L_other == [raw |-> "object", data |-> ("type" :> "ping")]
L_notype == [raw |-> "object", data |-> ("content" :> Frag5)]

Lines ==
    {L_empty, L_plain, L_invalid, L_content(Frag5), L_content(Frag6),
     L_content_absent, L_done, L_error("boom"), L_error("fail"), L_other,
     L_notype}

Statuses == {HTTP_OK, 204, 500}

Sessions == {"None", "", "s1"}

Messages == {<<>>, <<" ">>, <<"h", "i">>}

Waits == {0, SlowLine}

---------------------------------------------------------------------------
(* Helpers *)

\* the characters str.strip() removes
Whitespace == {" ", "\n"}

RECURSIVE lstrip(_)
lstrip(s) == IF s # <<>> /\ Head(s) \in Whitespace THEN lstrip(Tail(s)) ELSE s

RECURSIVE rstrip(_)
rstrip(s) ==
    IF s # <<>> /\ s[Len(s)] \in Whitespace
    THEN rstrip(SubSeq(s, 1, Len(s) - 1)) ELSE s

strip(s) == rstrip(lstrip(s))

\* Falsy testing `is None` only
Falsy_is_none(s) == s = "None"

\* Python truthiness of a session id: None and '' are falsy
Falsy(s) == s \in {"None", ""}

\* data.get(key, default)
get(data, key, default) == IF key \in DOMAIN data THEN data[key] ELSE default

\* the loop without its prefix test: every non-empty line goes to json.loads
startswith_data_any(line) == TRUE

\* line.startswith('data: ') on a non-empty line
startswith_data(line) == line.raw \in {"invalid", "object"}

Timeout(c) ==
    IF c = "cli" THEN timeout_cli
    ELSE IF c = "test" THEN timeout_test
    ELSE timeout_viewer

---------------------------------------------------------------------------
(* What one step of a consumer does: go on reading, or leave the call. *)

Continue(text, warn) ==
    [go |-> "continue", text |-> text, warn |-> warn,
     result |-> "", printed |-> "", exit |-> "", errmsg |-> ""]

Leave(text, r, p, site, e) ==
    [go |-> "return", text |-> text, warn |-> 0,
     result |-> r, printed |-> p, exit |-> site, errmsg |-> e]

---------------------------------------------------------------------------
(* APITester.send_message_streaming *)

\* full_response += content
Accumulate(text, content) == text \o content

\* except Exception as e: print("Erro no streaming: {e}"); return False
cli_except(text, site) ==
    Leave(text, "false", "Erro no streaming", site, "exception")

\* if response.status_code != 200: print("Erro HTTP ..."); return False
cli_status(text) == Leave(text, "false", "Erro HTTP", "http_status", "")

\* elif data['type'] == 'done': ... return True
cli_done(text) ==
    Leave(text, "true", "Resposta completa recebida", "done", "")

\* cli_error reading the message under the wrong key
cli_error_wrong_key(text, data) ==
    Leave(text, "false", "Erro no streaming", "error_event",
          get(data, "message", "None"))

\* elif data['type'] == 'error': print("Erro no streaming: ...") return False
cli_error(text, data) ==
    Leave(text, "false", "Erro no streaming", "error_event",
          get(data, "error", "None"))

\* the loop with a bare `else:` in place of `elif data['type'] == 'error':`
cli_line_else_error(line, text) ==
    IF line.raw = "empty" THEN Continue(text, 0)
    ELSE IF ~startswith_data(line) THEN Continue(text, 0)
    ELSE IF line.raw = "invalid" THEN Continue(text, 1)
    ELSE IF "type" \notin DOMAIN line.data THEN cli_except(text, "loop_exception")
    ELSE IF line.data["type"] = "content"
         THEN Continue(Accumulate(text, get(line.data, "content", <<>>)), 0)
    ELSE IF line.data["type"] = "done" THEN cli_done(text)
    ELSE cli_error(text, line.data)

\* the body of `for line in response.iter_lines()`
cli_line(line, text) ==
    IF line.raw = "empty" THEN Continue(text, 0)
    ELSE IF ~startswith_data(line) THEN Continue(text, 0)
    ELSE IF line.raw = "invalid" THEN Continue(text, 1)
    ELSE IF "type" \notin DOMAIN line.data THEN cli_except(text, "loop_exception")
    ELSE IF line.data["type"] = "content"
         THEN Continue(Accumulate(text, get(line.data, "content", <<>>)), 0)
    ELSE IF line.data["type"] = "done" THEN cli_done(text)
    ELSE IF line.data["type"] = "error" THEN cli_error(text, line.data)
    ELSE Continue(text, 0)

\* print("Stream terminou sem 'done'"); return len(full_response) > 0
cli_end(text) ==
    Leave(text, IF Len(text) > 0 THEN "true" ELSE "false",
          "Stream terminou sem done", "end_of_stream", "")

---------------------------------------------------------------------------
(* test_streaming_with_real_content *)

test_except(text, site) ==
    Leave(text, "false", "Erro no streaming", site, "exception")

test_status(text) == Leave(text, "false", "Erro HTTP", "http_status", "")

\* test_done with the comparison off by one (>= 10)
test_done_ge(text) ==
    IF Len(text) >= MinRealContent
    THEN Leave(text, "true", "TESTE PASSOU", "done", "")
    ELSE Leave(text, "false", "TESTE FALHOU", "done", "")

\* the done branch with the fallback's test of send_message_streaming
test_done_nonempty(text) ==
    IF Len(text) > 0
    THEN Leave(text, "true", "TESTE PASSOU", "done", "")
    ELSE Leave(text, "false", "TESTE FALHOU", "done", "")

\* if len(full_response) > 10: return True  else: return False
\* (the statistics printed first divide by end_time - start_time, which is
\* positive: at least one read of the socket lies between the two readings)
test_done(text) ==
    IF Len(text) > MinRealContent
    THEN Leave(text, "true", "TESTE PASSOU", "done", "")
    ELSE Leave(text, "false", "TESTE FALHOU", "done", "")

test_error(text, data) ==
    Leave(text, "false", "Erro no streaming", "error_event",
          get(data, "error", "None"))

test_line(line, text) ==
    IF line.raw = "empty" THEN Continue(text, 0)
    ELSE IF ~startswith_data(line) THEN Continue(text, 0)
    ELSE IF line.raw = "invalid" THEN Continue(text, 1)
    ELSE IF "type" \notin DOMAIN line.data THEN test_except(text, "loop_exception")
    ELSE IF line.data["type"] = "content"
         THEN Continue(Accumulate(text, get(line.data, "content", <<>>)), 0)
    ELSE IF line.data["type"] = "done" THEN test_done(text)
    ELSE IF line.data["type"] = "error" THEN test_error(text, line.data)
    ELSE Continue(text, 0)

\* the fallback with send_message_streaming's `len(full_response) > 0`
test_end_nonempty(text) ==
    IF Len(text) > 0
    THEN Leave(text, "true", "Mas conteudo foi recebido", "end_of_stream", "")
    ELSE Leave(text, "false", "Pouco conteudo", "end_of_stream", "")

\* after the loop: if len(full_response) > 10: return True  else: return False
test_end(text) ==
    IF Len(text) > MinRealContent
    THEN Leave(text, "true", "Mas conteudo foi recebido", "end_of_stream", "")
    ELSE Leave(text, "false", "Pouco conteudo", "end_of_stream", "")

---------------------------------------------------------------------------
(* main: the chat send handler of the viewer *)

\* except Exception as e: st.error("Erro no chat: ...")
viewer_except(text, site) == Leave(text, "none", "Erro no chat", site, "exception")

\* else: st.error("Erro HTTP ...")
viewer_status(text) == Leave(text, "none", "Erro HTTP", "http_status", "")

\* if claude_response.strip(): chat_history.append(assistant message); st.rerun()
viewer_after_loop(text, site) ==
    IF strip(text) # <<>>
    THEN Leave(text, "appended", "", site, "")
    ELSE Leave(text, "none", "", site, "")

viewer_line(line, text) ==
    IF line.raw = "empty" THEN Continue(text, 0)
    ELSE IF ~startswith_data(line) THEN Continue(text, 0)
    ELSE IF line.raw = "invalid" THEN Continue(text, 0)
    ELSE IF "type" \notin DOMAIN line.data THEN viewer_except(text, "loop_exception")
    ELSE IF line.data["type"] = "content"
         THEN Continue(Accumulate(text, get(line.data, "content", <<>>)), 0)
    ELSE IF line.data["type"] = "done" THEN viewer_after_loop(text, "done")
    ELSE Continue(text, 0)

---------------------------------------------------------------------------
(* test_quick_response *)

\* except Exception as e: print("Erro: {e}"); return False
quick_except(text, site) == Leave(text, "false", "Erro", site, "exception")

\* the done branch without the strip()
quick_done_unstripped(text) ==
    Leave(text, IF Len(text) > 0 THEN "true" ELSE "false",
          "Resposta recebida", "done", "")

\* elif data['type'] == 'done': return len(full_response.strip()) > 0
quick_done(text) ==
    Leave(text, IF Len(strip(text)) > 0 THEN "true" ELSE "false",
          "Resposta recebida", "done", "")

quick_line(line, text) ==
    IF line.raw = "empty" THEN Continue(text, 0)
    ELSE IF ~startswith_data(line) THEN Continue(text, 0)
    ELSE IF line.raw = "invalid" THEN Continue(text, 0)
    ELSE IF "type" \notin DOMAIN line.data THEN quick_except(text, "loop_exception")
    ELSE IF line.data["type"] = "content"
         THEN Continue(Accumulate(text, get(line.data, "content", <<>>)), 0)
    ELSE IF line.data["type"] = "done" THEN quick_done(text)
    ELSE Continue(text, 0)

\* after the loop: return False
quick_end(text) == Leave(text, "false", "", "end_of_stream", "")

---------------------------------------------------------------------------
(* Dispatch on the running consumer *)

OnLine(c, line, text) ==
    IF c = "cli" THEN cli_line(line, text)
    ELSE IF c = "test" THEN test_line(line, text)
    ELSE IF c = "quick" THEN quick_line(line, text)
    ELSE viewer_line(line, text)

OnEnd(c, text) ==
    IF c = "cli" THEN cli_end(text)
    ELSE IF c = "test" THEN test_end(text)
    ELSE IF c = "quick" THEN quick_end(text)
    ELSE viewer_after_loop(text, "end_of_stream")

OnExcept(c, text, site) ==
    IF c = "cli" THEN cli_except(text, site)
    ELSE IF c = "test" THEN test_except(text, site)
    ELSE IF c = "quick" THEN quick_except(text, site)
    ELSE viewer_except(text, site)

\* test_quick_response goes from requests.post straight to the loop
ChecksStatus(c) == c # "quick"

OnStatus(c, text) ==
    IF c = "cli" THEN cli_status(text)
    ELSE IF c = "test" THEN test_status(text)
    ELSE viewer_status(text)

\* finally: requests.delete(.../api/session/{session_id}); the two tests have one
Finally(c) == IF c \in {"test", "quick"} THEN 1 ELSE 0

\* what that DELETE can do: answer, or raise into the bare `except:`
FinallyOutcomes(c) ==
    IF c \in {"test", "quick"} THEN {"deleted", "delete_failed"} ELSE {""}

\* the finally block with the DELETE outside any try
FinallyResult_unguarded(r, d) == IF d = "delete_failed" THEN "raise" ELSE r

\* the value returned once the finally block has run: the bare `except:`
\* swallows a failed DELETE and the block has no return of its own
FinallyResult(r, d) == r

\* Nothing in the consumers closes the response (no `with`, no close()):
\* the connection is given up only by requests itself, when the body was
\* read to its end (iter_lines exhausted, response.text) or the transport
\* broke.
conn_after(c, site) ==
    IF site = "post_exception" THEN "none"
    ELSE IF site \in {"end_of_stream", "stream_exception"} THEN "closed"
    ELSE IF site = "http_status" /\ c \in {"cli", "test"} THEN "closed"
    ELSE "open"

---------------------------------------------------------------------------
\* the consumer c run over the lines ls from its start: the effect at which
\* it leaves the loop, or the one it has reached when ls is used up
RECURSIVE DecodeFrom(_, _, _, _)
DecodeFrom(c, ls, text, warn) ==
    IF ls = <<>> THEN Continue(text, warn)
    ELSE LET e == OnLine(c, Head(ls), text)
         IN  IF e.go = "continue"
             THEN DecodeFrom(c, Tail(ls), e.text, warn + e.warn)
             ELSE [e EXCEPT !.warn = warn]

Decode(c, ls) == DecodeFrom(c, ls, <<>>, 0)

---------------------------------------------------------------------------
(* The state machine *)

\* the two concurrent calls
Threads == {"A", "B"}

\* a call that has not started
IdleFrame ==
    [pc |-> "idle", body |-> <<>>, full_response |-> <<>>, warnings |-> 0,
     result |-> "", printed |-> "", exit |-> "", errmsg |-> ""]

IdleFrames == frames = [t \in Threads |-> IdleFrame]

NoOp == [op |-> "", result |-> "", reqs |-> <<>>]

\* what a server does with one request: requests raises, or a response with
\* status st whose JSON is complete or not and holds the session id `id`
\* ("nokey": none); for /api/chat the lines of its body
Server(raised, st, complete, id, b) ==
    [raised |-> raised, st |-> st, complete |-> complete, id |-> id, body |-> b]

NoServer == Server(FALSE, HTTP_OK, TRUE, "nokey", <<>>)

\* self.current_session_id = None, nothing called yet
IdleTester ==
    /\ current_session_id = "None"
    /\ last = NoOp
    /\ gone = {}
    /\ server = NoServer
    /\ ops = 0

IdleCall ==
    /\ pc = "idle"
    /\ client = "cli"
    /\ message = <<>>
    /\ session = "None"
    /\ body = <<>>
    /\ full_response = <<>>
    /\ result = ""
    /\ printed = ""
    /\ errmsg = ""
    /\ warnings = 0
    /\ exit = ""
    /\ calls = 0
    /\ posts = 0
    /\ sent = 0
    /\ clock = 0
    /\ deleted = 0
    /\ cleanup = ""
    /\ conn = "none"

\* run_full_test before its first statement
IdleRun == run = [pc |-> "health", results |-> <<>>, reqs |-> <<>>, value |-> ""]

\* if "debug_logs" not in st.session_state: st.session_state.debug_logs = []
NoLogs ==
    /\ debug_logs = <<>>
    /\ appended = 0
    /\ logcall = ""

\* the viewer: st.session_state.debug_mode = True; the chat app: False
IdleLog(a) ==
    /\ app = a
    /\ debug_mode = (a = "viewer")
    /\ NoLogs

\* the defaults the chat app puts in st.session_state, and an SDK that
\* has not been called
NoTokens == [input |-> 0, output |-> 0]

NoSdk == [created |-> 0, connects |-> 0, disconnects |-> 0, queries |-> 0,
          seen |-> 0]

\* usage_info = None
NoUsage == [k \in {} |-> 0]

NoReply == [fail |-> "", parts |-> <<>>, usage |-> NoUsage, cost |-> 0]

NoChat == [op |-> "", co |-> "", do |-> "", reply |-> NoReply, ret |-> "",
           connect_ret |-> "", n |-> 0]

IdleChat ==
    /\ messages = <<>>
    /\ sdk_client = 0
    /\ connected = FALSE
    /\ total_tokens = NoTokens
    /\ total_cost = 0
    /\ performance_metrics = <<>>
    /\ sdk = NoSdk
    /\ chat = NoChat

Init ==
    /\ IdleCall /\ IdleFrames /\ IdleTester /\ IdleRun /\ IdleLog("viewer")
    /\ IdleChat

\* a fresh invocation: its locals are unbound, nothing accumulated
Frame(c, m, s) ==
    /\ pc \in {"idle", "returned"}
    /\ calls < MaxCalls
    /\ calls' = calls + 1
    /\ client' = c
    /\ message' = m
    /\ session' = s
    /\ body' = <<>>
    /\ full_response' = <<>>
    /\ warnings' = 0
    /\ errmsg' = ""
    /\ clock' = 0
    /\ cleanup' = ""
    /\ conn' = "none"

\* the invocation ends before any request to /api/chat
Reject(r, p, site) ==
    /\ pc' = "returned"
    /\ result' = r
    /\ printed' = p
    /\ exit' = site
    /\ sent' = 0
    /\ posts' = posts
    /\ deleted' = 0

\* Post with one automatic retry of the request
Post_retry ==
    /\ pc' = "posted"
    /\ result' = ""
    /\ printed' = ""
    /\ exit' = ""
    /\ sent' = 2
    /\ posts' = posts + 2
    /\ deleted' = 0

\* response = requests.post(f"{base_url}/api/chat", json=payload, stream=True, timeout=...)
Post ==
    /\ pc' = "posted"
    /\ result' = ""
    /\ printed' = ""
    /\ exit' = ""
    /\ sent' = 1
    /\ posts' = posts + 1
    /\ deleted' = 0

\* the effect of one step of the running consumer
Apply(e) ==
    /\ full_response' = e.text
    /\ warnings' = warnings + e.warn
    /\ IF e.go = "continue"
       THEN /\ pc' = "reading"
            /\ UNCHANGED <<result, printed, exit, errmsg, deleted, cleanup>>
       ELSE /\ pc' = "returned"
            /\ cleanup' \in FinallyOutcomes(client)
            /\ result' = FinallyResult(e.result, cleanup')
            /\ printed' = e.printed
            /\ exit' = e.exit
            /\ errmsg' = e.errmsg
            /\ deleted' = Finally(client)

send_message_streaming(m, s) ==
    /\ UNCHANGED <<cvars, avars, xvars>>
    /\ Frame("cli", m, s)
    /\ IF Falsy(s)
       THEN Reject("false", "Nenhuma sessao ativa", "no_session")
       ELSE Post

chat_send_handler(m, s) ==
    /\ UNCHANGED <<cvars, avars, xvars>>
    /\ Frame("viewer", m, s)
    /\ IF strip(m) # <<>> /\ ~Falsy(s)
       THEN Post
       ELSE IF Falsy(s)
            THEN Reject("none", "Crie uma sessao primeiro", "no_session")
            ELSE Reject("none", "Digite uma mensagem", "no_message")

\* co: what POST /api/new-session did ("raise", "status", "ok")
test_streaming_with_real_content(co) ==
    /\ UNCHANGED <<cvars, avars, xvars>>
    /\ Frame("test", <<"h", "i">>, IF co = "ok" THEN "s1" ELSE "None")
    /\ IF co = "raise" THEN Reject("raise", "", "create_exception")
       ELSE IF co = "status" THEN Reject("false", "Falha ao criar sessao", "create_status")
       ELSE Post

\* co: what POST /api/new-session did; its status is not looked at and
\* response.json()["session_id"] raises out of the function
test_quick_response(co) ==
    /\ UNCHANGED <<cvars, avars, xvars>>
    /\ Frame("quick", <<"h", "i">>, IF co = "ok" THEN "s1" ELSE "None")
    /\ IF co = "raise" THEN Reject("raise", "", "create_exception")
       ELSE Post

\* requests.post raises (refused, DNS, connect or first-byte timeout)
post_raises ==
    /\ UNCHANGED <<cvars, avars, xvars>>
    /\ pc = "posted"
    /\ conn' = conn_after(client, "post_exception")
    /\ Apply(OnExcept(client, full_response, "post_exception"))
    /\ UNCHANGED <<client, message, session, body, calls, posts, sent, clock>>

\* requests.post returns a response with status st
post_responds(st) ==
    /\ UNCHANGED <<cvars, avars, xvars>>
    /\ pc = "posted"
    /\ IF st # HTTP_OK /\ ChecksStatus(client)
       THEN /\ conn' = conn_after(client, "http_status")
            /\ Apply(OnStatus(client, full_response))
       ELSE /\ pc' = "reading"
            /\ conn' = "open"
            /\ full_response' = <<>>
            /\ UNCHANGED <<result, printed, exit, errmsg, warnings, deleted,
                           cleanup>>
    /\ UNCHANGED <<client, message, session, body, calls, posts, sent, clock>>

\* the server sends `line` w seconds after the previous one and the loop takes it
iter_lines(line, w) ==
    /\ UNCHANGED <<cvars, avars, xvars>>
    /\ pc = "reading"
    /\ Len(body) < MaxLines
    /\ w < Timeout(client)
    /\ body' = Append(body, line)
    /\ clock' = clock + w
    /\ LET e == OnLine(client, line, full_response)
       IN  /\ Apply(e)
           /\ conn' = IF e.go = "continue" THEN conn ELSE conn_after(client, e.exit)
    /\ UNCHANGED <<client, message, session, calls, posts, sent>>

\* the server closes the body: the loop falls through
end_of_stream ==
    /\ UNCHANGED <<cvars, avars, xvars>>
    /\ pc = "reading"
    /\ conn' = conn_after(client, "end_of_stream")
    /\ Apply(OnEnd(client, full_response))
    /\ UNCHANGED <<client, message, session, body, calls, posts, sent, clock>>

\* iter_lines raises: the connection broke (w = 0) or no byte arrived for
\* `timeout` seconds (w = timeout)
stream_raises(w) ==
    /\ UNCHANGED <<cvars, avars, xvars>>
    /\ pc = "reading"
    /\ clock' = clock + w
    /\ conn' = conn_after(client, "stream_exception")
    /\ Apply(OnExcept(client, full_response, "stream_exception"))
    /\ UNCHANGED <<client, message, session, body, calls, posts, sent>>

Next ==
    \/ \E m \in Messages, s \in Sessions : send_message_streaming(m, s)
    \/ \E m \in Messages, s \in Sessions : chat_send_handler(m, s)
    \/ \E co \in {"raise", "status", "ok"} : test_streaming_with_real_content(co)
    \/ post_raises
    \/ \E st \in Statuses : post_responds(st)
    \/ \E line \in Lines, w \in Waits : iter_lines(line, w)
    \/ end_of_stream
    \/ \E w \in {0, Timeout(client)} : stream_raises(w)

Spec == Init /\ [][Next]_vars

---------------------------------------------------------------------------
(* test_quick_response, run against the same responses and against ones    *)
(* whose content is only whitespace, which its strip() tells apart         *)

QuickLines == Lines \cup {L_content(Blank)}

NextQuick ==
    \/ \E co \in {"raise", "ok"} : test_quick_response(co)
    \/ post_raises
    \/ \E st \in Statuses : post_responds(st)
    \/ \E line \in QuickLines, w \in Waits : iter_lines(line, w)
    \/ end_of_stream
    \/ \E w \in {0, Timeout(client)} : stream_raises(w)

SpecQuick == Init /\ [][NextQuick]_vars

---------------------------------------------------------------------------
(* Two calls of send_message_streaming at once on one APITester: each has  *)
(* its own frame; self.current_session_id and self.base_url are only read. *)

ConcLines == {L_content(Frag5), L_content(Frag6), L_invalid, L_done, L_error("boom")}

\* full_response kept on the instance, here in the frame of the first call
Local_shared(fr, t) == fr["A"].full_response

\* full_response = "" is bound in the frame of the call that runs the loop
Local(fr, t) == fr[t].full_response

\* the effect of one step of call t on its own frame
ApplyFrame(t, e) ==
    frames' = [frames EXCEPT ![t] =
        IF e.go = "continue"
        THEN [@ EXCEPT !.pc = "reading", !.full_response = e.text,
                       !.warnings = @ + e.warn]
        ELSE [@ EXCEPT !.pc = "returned", !.full_response = e.text,
                       !.result = e.result, !.printed = e.printed,
                       !.exit = e.exit, !.errmsg = e.errmsg]]

conc_send_message_streaming(t) ==
    /\ UNCHANGED <<svars, avars, xvars>>
    /\ frames[t].pc = "idle"
    /\ IF Falsy(current_session_id)
       THEN ApplyFrame(t, Leave(<<>>, "false", "Nenhuma sessao ativa", "no_session", ""))
       ELSE frames' = [frames EXCEPT ![t].pc = "posted"]

conc_post_raises(t) ==
    /\ UNCHANGED <<svars, avars, xvars>>
    /\ frames[t].pc = "posted"
    /\ ApplyFrame(t, cli_except(<<>>, "post_exception"))

conc_post_responds(t, st) ==
    /\ UNCHANGED <<svars, avars, xvars>>
    /\ frames[t].pc = "posted"
    /\ IF st # HTTP_OK
       THEN ApplyFrame(t, cli_status(<<>>))
       ELSE frames' = [frames EXCEPT ![t].pc = "reading", ![t].full_response = <<>>]

conc_iter_lines(t, line) ==
    /\ UNCHANGED <<svars, avars, xvars>>
    /\ frames[t].pc = "reading"
    /\ Len(frames[t].body) < MaxLines
    /\ LET e == cli_line(line, Local(frames, t))
           read == [frames EXCEPT ![t].body = Append(@, line)]
       IN  frames' = [read EXCEPT ![t] =
               IF e.go = "continue"
               THEN [@ EXCEPT !.full_response = e.text, !.warnings = @ + e.warn]
               ELSE [@ EXCEPT !.pc = "returned", !.full_response = e.text,
                              !.result = e.result, !.printed = e.printed,
                              !.exit = e.exit, !.errmsg = e.errmsg]]

conc_end_of_stream(t) ==
    /\ UNCHANGED <<svars, avars, xvars>>
    /\ frames[t].pc = "reading"
    /\ ApplyFrame(t, cli_end(Local(frames, t)))

conc_stream_raises(t) ==
    /\ UNCHANGED <<svars, avars, xvars>>
    /\ frames[t].pc = "reading"
    /\ ApplyFrame(t, cli_except(Local(frames, t), "stream_exception"))

\* an APITester with or without a session, and no call started on it
InitConc ==
    /\ IdleCall
    /\ IdleFrames
    /\ IdleRun
    /\ IdleLog("viewer")
    /\ IdleChat
    /\ current_session_id \in {"None", "s1"}
    /\ last = NoOp
    /\ gone = {}
    /\ server = NoServer
    /\ ops = 0

NextConc ==
    \E t \in Threads :
        \/ conc_send_message_streaming(t)
        \/ conc_post_raises(t)
        \/ \E st \in Statuses : conc_post_responds(t, st)
        \/ \E line \in ConcLines : conc_iter_lines(t, line)
        \/ conc_end_of_stream(t)
        \/ conc_stream_raises(t)

SpecConc == InitConc /\ [][NextConc]_vars

---------------------------------------------------------------------------
(* One APITester and its operations, called one after the other. Each      *)
(* action is one whole method call: raised says that requests raised       *)
(* (refused, timeout), st is the status of the response, and the last      *)
(* argument what the body of a 200 response holds.                         *)

MaxOps == 4

\* the ids the server gives to new sessions
Ids == {"s1", "s2"}

\* the responses of /api/chat a call is run over, each read to its end
ChatBodies ==
    {<<>>, <<L_done>>, <<L_content(Frag5)>>, <<L_content(Frag5), L_done>>,
     <<L_error("boom")>>, <<L_notype>>}

Req(method, path, sid) == [method |-> method, path |-> path, sid |-> sid]

\* one method call: its name, the value returned, the requests it sent,
\* and self.current_session_id when it returns
Op(name, r, reqs, sid) ==
    /\ ops' = ops + 1
    /\ last' = [op |-> name, result |-> r, reqs |-> reqs]
    /\ current_session_id' = sid
    /\ UNCHANGED <<svars, cvars, zvars>>

\* if not self.current_session_id: print("Nenhuma sessao ativa"); return False
NoSession(name) ==
    /\ Op(name, "false", <<>>, current_session_id)
    /\ UNCHANGED gone

\* the test of the status as `response.ok`
Answer_any_2xx(raised, st, complete) ==
    IF ~raised /\ st \in {HTTP_OK, 204} /\ complete THEN "true" ELSE "false"

\* try: response = requests...; if response.status_code == 200: ... return True
\* else: ... return False        except Exception: ... return False
Answer(raised, st, complete) ==
    IF ~raised /\ st = HTTP_OK /\ complete THEN "true" ELSE "false"

APITester_test_health(raised, st, complete) ==
    /\ Op("test_health", Answer(raised, st, complete),
          <<Req("GET", "/health", "")>>, current_session_id)
    /\ UNCHANGED gone

\* id: data["session_id"] of a 200 response, "nokey" when it has none
APITester_create_new_session(raised, st, id) ==
    LET r == Answer(raised, st, id # "nokey")
    IN  /\ Op("create_new_session", r, <<Req("POST", "/api/new-session", "")>>,
              IF r = "true" THEN id ELSE current_session_id)
        /\ gone' = IF r = "true" THEN gone \ {id} ELSE gone

APITester_create_session_with_config(raised, st, id) ==
    LET r == Answer(raised, st, id # "nokey")
    IN  /\ Op("create_session_with_config", r,
              <<Req("POST", "/api/session-with-config", "")>>,
              IF r = "true" THEN id ELSE current_session_id)
        /\ gone' = IF r = "true" THEN gone \ {id} ELSE gone

\* send_message_streaming with `except json.JSONDecodeError` as its only handler
StreamResult_unguarded(raised, st, b) ==
    IF raised THEN "raise"
    ELSE IF st # HTTP_OK THEN cli_status(<<>>).result
    ELSE LET d == DecodeFrom("cli", b, <<>>, 0)
         IN  IF d.go = "return"
             THEN (IF d.exit = "loop_exception" THEN "raise" ELSE d.result)
             ELSE cli_end(d.text).result

\* the value send_message_streaming returns over a response read to its end
StreamResult(raised, st, b) ==
    IF raised THEN cli_except(<<>>, "post_exception").result
    ELSE IF st # HTTP_OK THEN cli_status(<<>>).result
    ELSE LET d == DecodeFrom("cli", b, <<>>, 0)
         IN  IF d.go = "return" THEN d.result ELSE cli_end(d.text).result

APITester_send_message_streaming(raised, st, b) ==
    IF Falsy(current_session_id)
    THEN NoSession("send_message_streaming")
    ELSE /\ Op("send_message_streaming", StreamResult(raised, st, b),
               <<Req("POST", "/api/chat", current_session_id)>>,
               current_session_id)
         /\ UNCHANGED gone

APITester_get_session_info(raised, st, complete) ==
    IF Falsy(current_session_id)
    THEN NoSession("get_session_info")
    ELSE /\ Op("get_session_info", Answer(raised, st, complete),
               <<Req("GET", "/api/session/{id}", current_session_id)>>,
               current_session_id)
         /\ UNCHANGED gone

APITester_clear_session(raised, st) ==
    IF Falsy(current_session_id)
    THEN NoSession("clear_session")
    ELSE /\ Op("clear_session", Answer(raised, st, TRUE),
               <<Req("POST", "/api/clear", current_session_id)>>,
               current_session_id)
         /\ UNCHANGED gone

APITester_interrupt_session(raised, st) ==
    IF Falsy(current_session_id)
    THEN NoSession("interrupt_session")
    ELSE /\ Op("interrupt_session", Answer(raised, st, TRUE),
               <<Req("POST", "/api/interrupt", current_session_id)>>,
               current_session_id)
         /\ UNCHANGED gone

\* delete_session without `self.current_session_id = None`
after_delete_kept(sid, r) == sid

\* if response.status_code == 200: ... self.current_session_id = None
after_delete(sid, r) == IF r = "true" THEN "None" ELSE sid

APITester_delete_session(raised, st) ==
    IF Falsy(current_session_id)
    THEN NoSession("delete_session")
    ELSE LET r == Answer(raised, st, TRUE)
         IN  /\ Op("delete_session", r,
                   <<Req("DELETE", "/api/session/{id}", current_session_id)>>,
                   after_delete(current_session_id, r))
             /\ gone' = IF ~raised /\ st = HTTP_OK
                        THEN gone \cup {current_session_id} ELSE gone

APITester_list_sessions(raised, st, complete) ==
    /\ Op("list_sessions", Answer(raised, st, complete),
          <<Req("GET", "/api/sessions", "")>>, current_session_id)
    /\ UNCHANGED gone

\* the operations called by hand, one after the other, up to MaxOps of them
Alone == ops < MaxOps /\ UNCHANGED fvars

NextTester ==
    \E raised \in BOOLEAN, st \in Statuses :
        \/ \E complete \in BOOLEAN :
               /\ APITester_test_health(raised, st, complete)
               /\ server' = Server(raised, st, complete, "nokey", <<>>) /\ Alone
        \/ \E id \in Ids \cup {"nokey"} :
               /\ APITester_create_new_session(raised, st, id)
               /\ server' = Server(raised, st, id # "nokey", id, <<>>) /\ Alone
        \/ \E id \in Ids \cup {"nokey"} :
               /\ APITester_create_session_with_config(raised, st, id)
               /\ server' = Server(raised, st, id # "nokey", id, <<>>) /\ Alone
        \/ \E b \in ChatBodies :
               /\ APITester_send_message_streaming(raised, st, b)
               /\ server' = Server(raised, st, TRUE, "nokey", b) /\ Alone
        \/ \E complete \in BOOLEAN :
               /\ APITester_get_session_info(raised, st, complete)
               /\ server' = Server(raised, st, complete, "nokey", <<>>) /\ Alone
        \/ /\ APITester_clear_session(raised, st)
           /\ server' = Server(raised, st, TRUE, "nokey", <<>>) /\ Alone
        \/ /\ APITester_interrupt_session(raised, st)
           /\ server' = Server(raised, st, TRUE, "nokey", <<>>) /\ Alone
        \/ /\ APITester_delete_session(raised, st)
           /\ server' = Server(raised, st, TRUE, "nokey", <<>>) /\ Alone
        \/ \E complete \in BOOLEAN :
               /\ APITester_list_sessions(raised, st, complete)
               /\ server' = Server(raised, st, complete, "nokey", <<>>) /\ Alone

SpecTester == Init /\ [][NextTester]_vars

---------------------------------------------------------------------------
(* run_full_test: tester = APITester(); results = []; then the methods in  *)
(* the order of the function, each step appending (label, value) to        *)
(* results. run.pc names the step about to run.                            *)

PassRate == 80

\* results.append((label, value)); the requests of the method join run.reqs
Recorded(label) ==
    [run EXCEPT !.results = Append(@, [name |-> label, ok |-> last'.result]),
                !.reqs = @ \o last'.reqs]

\* the steps with no test around them: on to the step written next
Then(label, next) == run' = [Recorded(label) EXCEPT !.pc = next]

\* run_full_test with the steps of the simple session run unconditionally
after_create_unguarded(ok) == "message"

\* if results[1][1]: steps 3 to 7, otherwise on to step 8
after_create(ok) == IF ok = "true" THEN "message" ELSE "create_config"

\* if results[-1][1]: steps 9 to 11, otherwise on to the report
after_create_config(ok) == IF ok = "true" THEN "message_config" ELSE "report"

\* 1. results.append(("Health Check", tester.test_health()))
\*    if not results[0][1]: ... return False
run_health(raised, st, complete) ==
    /\ run.pc = "health"
    /\ APITester_test_health(raised, st, complete)
    /\ server' = Server(raised, st, complete, "nokey", <<>>)
    /\ run' = IF last'.result = "true"
              THEN [Recorded("Health Check") EXCEPT !.pc = "create"]
              ELSE [Recorded("Health Check") EXCEPT !.pc = "returned",
                                                    !.value = "false"]

\* 2. results.append(("Criar Sessao Simples", tester.create_new_session()))
run_create(raised, st, id) ==
    /\ run.pc = "create"
    /\ APITester_create_new_session(raised, st, id)
    /\ server' = Server(raised, st, id # "nokey", id, <<>>)
    /\ run' = [Recorded("Criar Sessao Simples") EXCEPT
                   !.pc = after_create(last'.result)]

\* 3., 6., 9. results.append((..., tester.send_message_streaming(...)))
run_message(raised, st, b) ==
    /\ run.pc \in {"message", "message_after_clear", "message_config"}
    /\ APITester_send_message_streaming(raised, st, b)
    /\ server' = Server(raised, st, TRUE, "nokey", b)
    /\ IF run.pc = "message" THEN Then("Mensagem Simples", "info")
       ELSE IF run.pc = "message_after_clear"
            THEN Then("Mensagem Pos-Limpeza", "delete")
       ELSE Then("Teste com Config", "list")

\* 4. results.append(("Info da Sessao", tester.get_session_info()))
run_info(raised, st, complete) ==
    /\ run.pc = "info"
    /\ APITester_get_session_info(raised, st, complete)
    /\ server' = Server(raised, st, complete, "nokey", <<>>)
    /\ Then("Info da Sessao", "clear")

\* 5. results.append(("Limpar Sessao", tester.clear_session()))
run_clear(raised, st) ==
    /\ run.pc = "clear"
    /\ APITester_clear_session(raised, st)
    /\ server' = Server(raised, st, TRUE, "nokey", <<>>)
    /\ Then("Limpar Sessao", "message_after_clear")

\* 7., 11. results.append((..., tester.delete_session()))
run_delete(raised, st) ==
    /\ run.pc \in {"delete", "final_delete"}
    /\ APITester_delete_session(raised, st)
    /\ server' = Server(raised, st, TRUE, "nokey", <<>>)
    /\ IF run.pc = "delete" THEN Then("Deletar Sessao", "create_config")
       ELSE Then("Limpeza Final", "report")

\* 8. results.append(("Sessao com Config", tester.create_session_with_config()))
run_create_config(raised, st, id) ==
    /\ run.pc = "create_config"
    /\ APITester_create_session_with_config(raised, st, id)
    /\ server' = Server(raised, st, id # "nokey", id, <<>>)
    /\ run' = [Recorded("Sessao com Config") EXCEPT
                   !.pc = after_create_config(last'.result)]

\* 10. results.append(("Listar Sessoes", tester.list_sessions()))
run_list(raised, st, complete) ==
    /\ run.pc = "list"
    /\ APITester_list_sessions(raised, st, complete)
    /\ server' = Server(raised, st, complete, "nokey", <<>>)
    /\ Then("Listar Sessoes", "final_delete")

\* passed = number of True in results
Passed(results) == Cardinality({i \in 1..Len(results) : results[i].ok = "true"})

\* success_rate = (passed / len(results)) * 100; return success_rate >= 80
run_report ==
    /\ run.pc = "report"
    /\ run' = [run EXCEPT
                  !.pc = "returned",
                  !.value = IF Passed(run.results) * 100
                                  >= PassRate * Len(run.results)
                            THEN "true" ELSE "false"]
    /\ UNCHANGED <<svars, cvars, avars, zvars>>

NextFull ==
    \/ \E raised \in BOOLEAN, st \in Statuses :
          \/ \E complete \in BOOLEAN : run_health(raised, st, complete)
          \/ \E id \in Ids \cup {"nokey"} : run_create(raised, st, id)
          \/ \E b \in ChatBodies : run_message(raised, st, b)
          \/ \E complete \in BOOLEAN : run_info(raised, st, complete)
          \/ run_clear(raised, st)
          \/ run_delete(raised, st)
          \/ \E id \in Ids \cup {"nokey"} : run_create_config(raised, st, id)
          \/ \E complete \in BOOLEAN : run_list(raised, st, complete)
    \/ run_report

SpecFull == Init /\ [][NextFull]_vars

---------------------------------------------------------------------------
(* add_debug_log of the viewer dashboard and of the chat app. An entry is  *)
(* kept by its ordinal, the number of entries appended up to and including *)
(* it, which stands for its timestamp, message and details.                *)

MaxAppended == 503

cap_viewer == 500
cap_chat == 100

Cap(a) == IF a = "viewer" THEN cap_viewer ELSE cap_chat

Levels == {"INFO", "WARNING", "error", "ERROR"}

\* level.upper()
upper(level) ==
    IF level = "error" THEN "ERROR" ELSE level

\* the test of the level without .upper()
is_error_exact(level) == level = "ERROR"

\* level.upper() != "ERROR", negated
is_error(level) == upper(level) = "ERROR"

\* debug_logs[:cap], the oldest entries
keep_first(logs, cap) == IF Len(logs) > cap THEN SubSeq(logs, 1, cap) ELSE logs

\* if len(debug_logs) > cap: debug_logs = debug_logs[-cap:]
keep_last(logs, cap) ==
    IF Len(logs) > cap THEN SubSeq(logs, Len(logs) - cap + 1, Len(logs)) ELSE logs

\* whether the call gets past the first test of the function: the viewer
\* returns at once when debug_mode is off and the level is not an error;
\* the chat app has no such test
Records(a, mode, level) == a = "chat" \/ mode \/ is_error(level)

add_debug_log(level) ==
    /\ logcall' = level
    /\ IF Records(app, debug_mode, level)
       THEN /\ appended < MaxAppended
            /\ appended' = appended + 1
            /\ debug_logs' = keep_last(Append(debug_logs, [n |-> appended + 1]),
                                       Cap(app))
       ELSE UNCHANGED <<debug_logs, appended>>
    /\ UNCHANGED <<app, debug_mode>>
    /\ UNCHANGED <<svars, cvars, avars, fvars, hvars>>

\* st.session_state.debug_mode = st.checkbox("Modo Debug", ...)
toggle_debug_mode ==
    /\ debug_mode' = ~debug_mode
    /\ UNCHANGED <<app, debug_logs, appended, logcall>>
    /\ UNCHANGED <<svars, cvars, avars, fvars, hvars>>

InitLog ==
    /\ IdleCall /\ IdleFrames /\ IdleTester /\ IdleRun /\ IdleChat
    /\ \E a \in {"viewer", "chat"} : IdleLog(a)

NextLog ==
    \/ \E level \in Levels : add_debug_log(level)
    \/ toggle_debug_mode

SpecLog == InitLog /\ [][NextLog]_vars

---------------------------------------------------------------------------
(* streamlit_chat_app.py: the handlers of the chat app.  Each handler is   *)
(* a function from the session state to the session state, written on a   *)
(* record s of the state it reads and writes: messages, client, connected, *)
(* total_tokens, total_cost, metrics (performance_metrics), logs (the      *)
(* levels of the add_debug_log calls it made, in order), sdk (the calls    *)
(* made to the SDK) and ret (the value returned).  What the SDK does with  *)
(* a call is an input of the handler.                                      *)

\* operations the user may start in one session
MaxChatOps == 3

\* ClaudeSDKClient() and client.connect(): both return, or one raises
ConnectOutcomes == {"ok", "create_raises", "connect_raises"}

\* client.disconnect() returns or raises
DisconnectOutcomes == {"ok", "raises"}

\* message.usage of the ResultMessage: None, or a dict of token counts
Usages == {NoUsage,
           [k \in {"input_tokens", "output_tokens"} |->
                IF k = "input_tokens" THEN 3 ELSE 2],
           [k \in {"input_tokens"} |-> 1]}

\* message.total_cost_usd of the ResultMessage, in cents: None or a cost
Costs == {0, 1}

\* the text blocks of the AssistantMessage
Parts == {<<>>, <<Blank, Blank>>, <<Frag5>>}

\* what client.query() and client.receive_response() do: the query raises
\* an exception whose text holds "connection", or another exception, or
\* the response arrives
Replies ==
    [fail : {"connection", "other"}, parts : {<<>>}, usage : {NoUsage},
     cost : {0}]
    \cup [fail : {"no"}, parts : Parts, usage : Usages, cost : Costs]

\* "\n".join(response_content)
RECURSIVE join(_)
join(parts) ==
    IF parts = <<>> THEN <<>>
    ELSE IF Len(parts) = 1 THEN parts[1]
    ELSE parts[1] \o <<"\n">> \o join(Tail(parts))

\* add_debug_log(level, ...) called by a handler
log(s, level) == [s EXCEPT !.logs = Append(@, level)]

\* the wrapper of @measure_performance(func_name): no handler lets an
\* exception out, so the success branch runs
measure_performance(s, func_name) ==
    log([s EXCEPT !.metrics = Append(@, func_name)], "info")

\* if not st.session_state.connected:, with the test left out
needs_connect_always(s) == TRUE

\* if not st.session_state.connected:
needs_connect(s) == ~s.connected

\* the try block of connect_client
connect_try(s, co) ==
    LET made == s.client = 0
        s1 == IF made THEN log(s, "debug") ELSE s
    IN  IF made /\ co = "create_raises"
        THEN [log(s1, "error") EXCEPT !.ret = "false"]
        ELSE
        LET s2 == IF made
                  THEN [s1 EXCEPT !.client = s.sdk.created + 1,
                                  !.sdk.created = @ + 1]
                  ELSE s1
        IN  IF needs_connect(s2)
            THEN LET s3 == [log(s2, "debug") EXCEPT !.sdk.connects = @ + 1]
                 IN  IF co = "connect_raises"
                     THEN [log(s3, "error") EXCEPT !.ret = "false"]
                     ELSE [log([s3 EXCEPT !.connected = TRUE], "info")
                              EXCEPT !.ret = "true"]
            ELSE [log(s2, "debug") EXCEPT !.ret = "true"]

connect_client(s, co) ==
    measure_performance(connect_try(log(s, "info"), co), "connect_client")

\* the try block of disconnect_client: when disconnect() raises, the two
\* assignments after it are skipped
disconnect_try(s, do) ==
    IF s.client # 0 /\ s.connected
    THEN LET s1 == [log(s, "debug") EXCEPT !.sdk.disconnects = @ + 1]
         IN  IF do = "raises"
             THEN log(s1, "error")
             ELSE [log(s1, "info") EXCEPT !.connected = FALSE, !.client = 0]
    ELSE [log(s, "debug") EXCEPT !.connected = FALSE, !.client = 0]

disconnect_client(s, do) ==
    [measure_performance(disconnect_try(log(s, "info"), do),
                         "disconnect_client") EXCEPT !.ret = "None"]

\* the update of the totals with the output count left out
add_tokens_input_only(total, usage) ==
    [total EXCEPT !.input = @ + get(usage, "input_tokens", 0)]

\* st.session_state.total_tokens["input"] += input_tokens, and the same
\* for "output"
add_tokens(total, usage) ==
    [input |-> total.input + get(usage, "input_tokens", 0),
     output |-> total.output + get(usage, "output_tokens", 0)]

\* the test of the response text left out
has_text_always(text) == TRUE

\* if full_response.strip():
has_text(text) == strip(text) # <<>>

\* the reset with the assignment to connected left out
connection_error_reset_client_only(s) == [s EXCEPT !.client = 0]

\* st.session_state.connected = False; st.session_state.client = None
connection_error_reset(s) == [s EXCEPT !.connected = FALSE, !.client = 0]

user_msg(prompt) ==
    [role |-> "user", content |-> prompt, usage |-> NoUsage, cost |-> 0]

assistant_msg(text, reply) ==
    [role |-> "assistant", content |-> text, usage |-> reply.usage,
     cost |-> reply.cost]

\* the loop over client.receive_response(): an AssistantMessage with the
\* text blocks, then a ResultMessage with usage and cost
collect(s, reply) ==
    LET s1 == log(log(log(s, "debug"), "debug"), "debug")
        s2 == IF reply.usage # NoUsage THEN log(s1, "debug") ELSE s1
        s3 == IF reply.cost # 0 THEN log(s2, "debug") ELSE s2
    IN  log(s3, "info")

\* the statements after the loop: the assistant message and the totals
save_response(s, reply) ==
    LET text == join(reply.parts)
    IN  IF has_text(text)
        THEN LET s1 == [s EXCEPT !.messages =
                                     Append(@, assistant_msg(text, reply))]
                 s2 == IF reply.usage # NoUsage
                       THEN log([s1 EXCEPT !.total_tokens =
                                     add_tokens(@, reply.usage)], "debug")
                       ELSE s1
             IN  IF reply.cost # 0
                 THEN log([s2 EXCEPT !.total_cost = @ + reply.cost], "debug")
                 ELSE s2
        ELSE log(s, "warning")

\* the except branch of send_message
send_except(s, reply) ==
    IF reply.fail = "connection"
    THEN connection_error_reset(log(log(s, "error"), "warning"))
    ELSE log(s, "error")

\* send_message after connect_client has returned True
send_connected(s, prompt, reply) ==
    LET s1 == log([s EXCEPT !.messages = Append(@, user_msg(prompt))],
                  "debug")
        s2 == [log(s1, "debug") EXCEPT !.sdk.queries = @ + 1,
                                       !.sdk.seen = Len(s1.messages)]
    IN  IF reply.fail # "no"
        THEN send_except(s2, reply)
        ELSE save_response(collect(s2, reply), reply)

send_message(s, prompt, co, reply) ==
    LET s1 == connect_client(log(s, "info"), co)
        s2 == [s1 EXCEPT !.connect_ret = s1.ret]
        s3 == IF s1.ret = "false"
              THEN log(s2, "error")
              ELSE send_connected(s2, prompt, reply)
    IN  [measure_performance(s3, "send_message") EXCEPT !.ret = "None"]

\* the reset that leaves client and connected to disconnect_client
clear_reset_conversation_only(s) ==
    [s EXCEPT !.messages = <<>>, !.total_tokens = NoTokens, !.total_cost = 0]

\* the five assignments at the end of clear_conversation
clear_reset(s) ==
    [s EXCEPT !.messages = <<>>, !.client = 0, !.connected = FALSE,
              !.total_tokens = NoTokens, !.total_cost = 0]

\* disconnect_client lets no exception out, so the except branch of
\* clear_conversation does not run
clear_conversation(s, do) ==
    LET s1 == disconnect_client(log(log(s, "info"), "debug"), do)
    IN  [log(clear_reset(s1), "info") EXCEPT !.ret = "None"]

check_and_reconnect(s) ==
    IF ~s.connected \/ s.client = 0
    THEN [log(s, "warning") EXCEPT !.connected = FALSE, !.client = 0,
                                   !.ret = "false"]
    ELSE [s EXCEPT !.ret = "true"]

\* the session state as a handler finds it
Session ==
    [messages |-> messages, client |-> sdk_client, connected |-> connected,
     total_tokens |-> total_tokens, total_cost |-> total_cost,
     metrics |-> performance_metrics, logs |-> <<>>, sdk |-> sdk,
     ret |-> "", connect_ret |-> ""]

\* add_debug_log in the chat app: append, then keep the last 100
log_entry(st) ==
    [logs |-> keep_last(Append(st.logs, [n |-> st.n + 1]), cap_chat),
     n |-> st.n + 1]

RECURSIVE log_entries(_, _)
log_entries(st, k) == IF k = 0 THEN st ELSE log_entries(log_entry(st), k - 1)

\* main() up to the sidebar: check_and_reconnect(), then the start-up entry
\* when the log is empty
main_start(s) ==
    LET s1 == check_and_reconnect(s)
    IN  IF Len(debug_logs) = 0 /\ s1.logs = <<>> THEN log(s1, "info") ELSE s1

\* one run of the script: the session state becomes s, and the entries the
\* run logged are appended to debug_logs
Run(op, co, do, reply, s) ==
    /\ chat.n < MaxChatOps
    /\ app = "chat"
    /\ messages' = s.messages
    /\ sdk_client' = s.client
    /\ connected' = s.connected
    /\ total_tokens' = s.total_tokens
    /\ total_cost' = s.total_cost
    /\ performance_metrics' = s.metrics
    /\ sdk' = s.sdk
    /\ chat' = [op |-> op, co |-> co, do |-> do, reply |-> reply,
                ret |-> s.ret, connect_ret |-> s.connect_ret,
                n |-> chat.n + 1]
    /\ LET st == log_entries([logs |-> debug_logs, n |-> appended],
                             Len(s.logs))
       IN  /\ debug_logs' = st.logs
           /\ appended' = st.n
    /\ logcall' = IF s.logs = <<>> THEN logcall ELSE s.logs[Len(s.logs)]
    /\ UNCHANGED <<app, debug_mode>>
    /\ UNCHANGED <<svars, cvars, avars, fvars>>

\* a run in which no button is pressed and nothing is typed
chat_rerun == Run("rerun", "", "", NoReply, main_start(Session))

\* the "Reconectar Agora" button, shown while connected is False
chat_reconnect(co) ==
    /\ ~main_start(Session).connected
    /\ Run("connect_client", co, "", NoReply,
           log(connect_client(log(main_start(Session), "info"), co), "info"))

\* the chat input and the example prompts
chat_send(co, reply) ==
    Run("send_message", co, "", reply,
        send_message(main_start(Session), "prompt", co, reply))

\* the "Nova Conversa" button
chat_clear(do) ==
    Run("clear_conversation", "", do, NoReply,
        clear_conversation(main_start(Session), do))

\* the "Desconectar" button: asyncio.create_task() finds no running event
\* loop and raises before the coroutine of disconnect_client starts
chat_disconnect ==
    Run("disconnect_button", "", "", NoReply,
        [main_start(Session) EXCEPT !.ret = "raise"])

InitChat ==
    /\ IdleCall /\ IdleFrames /\ IdleTester /\ IdleRun /\ IdleChat
    /\ IdleLog("chat")

NextChat ==
    \/ chat_rerun
    \/ \E co \in ConnectOutcomes : chat_reconnect(co)
    \/ \E co \in ConnectOutcomes, reply \in Replies : chat_send(co, reply)
    \/ \E do \in DisconnectOutcomes : chat_clear(do)
    \/ chat_disconnect

SpecChat == InitChat /\ [][NextChat]_vars

---------------------------------------------------------------------------
(* Reading the lines taken so far as events *)

IsObject(l) == l.raw = "object" /\ "type" \in DOMAIN l.data
IsContent(l) == IsObject(l) /\ l.data["type"] = "content"
IsDone(l) == IsObject(l) /\ l.data["type"] = "done"
IsError(l) == IsObject(l) /\ l.data["type"] = "error"
IsTerminal(l) == IsDone(l) \/ IsError(l)

\* the fragments of the Content events of ls, concatenated in arrival order
RECURSIVE ConcatContent(_)
ConcatContent(ls) ==
    IF ls = <<>> THEN <<>>
    ELSE (IF IsContent(Head(ls)) /\ "content" \in DOMAIN Head(ls).data
          THEN Head(ls).data["content"] ELSE <<>>) \o ConcatContent(Tail(ls))

AllContent(ls) == \A i \in 1..Len(ls) : IsContent(ls[i])

Front(ls) == SubSeq(ls, 1, Len(ls) - 1)

\* N Content events followed by one Done, N >= 0
WellFormedDone(ls) == ls # <<>> /\ IsDone(ls[Len(ls)]) /\ AllContent(Front(ls))

\* Content events followed by one Error
ContentThenError(ls) == ls # <<>> /\ IsError(ls[Len(ls)]) /\ AllContent(Front(ls))

---------------------------------------------------------------------------
---------------------------------------------------------------------------
(* C2: for every stream that closes after zero or more Content events      *)
(* without a terminal event, the consumer reports a truncation failure     *)
(* (success = false), distinguishable from success and from a remote       *)
(* Error, and the text is exactly the fragments received.                  *)
C2_TruncationIsFailure ==
    (pc = "returned" /\ client \in {"cli", "test"}
     /\ exit = "end_of_stream" /\ AllContent(body))
        => /\ result = "false"
           /\ printed \notin {OnLine(client, L_done, full_response).printed,
                              OnLine(client, L_error("boom"), full_response).printed}
           /\ full_response = ConcatContent(body)

---------------------------------------------------------------------------
(* C3: for every stream of Content events followed by an Error event       *)
(* carrying message m, send_message_streaming and                          *)
(* test_streaming_with_real_content report success = false, print m        *)
(* verbatim, and hold as text the concatenation of the fragments received  *)
(* before the Error.                                                       *)
C3_ErrorEventOutcome ==
    (pc = "returned" /\ client \in {"cli", "test"} /\ ContentThenError(body))
        => /\ result = "false"
           /\ exit = "error_event"
           /\ errmsg = body[Len(body)].data["error"]
           /\ full_response = ConcatContent(Front(body))

C3_Witness ==
    /\ pc = "returned"
    /\ client = "cli"
    /\ body = <<L_content(Frag5), L_content(Frag6), L_error("fail")>>
    /\ full_response = Frag5 \o Frag6
    /\ errmsg = "fail"
    /\ result = "false"

---------------------------------------------------------------------------
IsInvalid(l) == l.raw = "invalid"

CountInvalid(ls) == Cardinality({i \in 1..Len(ls) : IsInvalid(ls[i])})

\* unparseable prefixed lines interleaved among Content events, then Done
MalformedAmongContent(ls) ==
    /\ ls # <<>>
    /\ IsDone(ls[Len(ls)])
    /\ \A i \in 1..(Len(ls) - 1) : IsContent(ls[i]) \/ IsInvalid(ls[i])

(* C4: for every stream in which unparseable prefixed lines are            *)
(* interleaved among valid Content events and followed by Done, the        *)
(* consumer skips each unparseable line, reports success = true with the   *)
(* text of the valid fragments only, and records exactly one               *)
(* malformed-payload diagnostic per unparseable line.  Success is read off *)
(* send_message_streaming's return value: the viewer's handler returns     *)
(* nothing, and the test's return value also depends on the length of the  *)
(* text (C1).                                                              *)
C4_MalformedSkippedAndRecorded ==
    (pc = "returned" /\ MalformedAmongContent(body) /\ CountInvalid(body) >= 1)
        => /\ exit = "done"
           /\ client = "cli" => result = "true"
           /\ full_response = ConcatContent(body)
           /\ warnings = CountInvalid(body)

---------------------------------------------------------------------------
(* C5: in every SSE consumption loop, once a terminal event (done or       *)
(* error) has been decoded no later line of the response is read: a        *)
(* terminal event is the last line taken, and the loop has stopped.        *)
C5_NothingReadAfterTerminal ==
    /\ \A i \in 1..(Len(body) - 1) : ~IsTerminal(body[i])
    /\ (\E i \in 1..Len(body) : IsTerminal(body[i])) => pc = "returned"

---------------------------------------------------------------------------
(* C6: if the status is not 2xx or the request fails before any byte is    *)
(* read, no line is decoded, no text is accumulated, and what the caller   *)
(* gets (return value and message) differs from what an Error event        *)
(* produces.                                                               *)
C6_ConnectionFailureDistinct ==
    (pc = "returned" /\ client \in {"cli", "test"}
     /\ exit \in {"post_exception", "http_status"})
        => /\ body = <<>>
           /\ full_response = <<>>
           /\ \A m \in {"boom", "fail"} :
                LET e == OnLine(client, L_error(m), <<>>)
                IN  <<result, printed>> # <<e.result, e.printed>>

---------------------------------------------------------------------------
(* C7: a chat request whose message is empty issues no POST to the chat    *)
(* endpoint, in send_message_streaming and in the viewer's send handler.   *)
C7_EmptyMessageNotPosted ==
    (pc # "idle" /\ client \in {"cli", "viewer"} /\ message = <<>>)
        => (sent = 0 /\ pc = "returned")

---------------------------------------------------------------------------
(* C8: with an empty or absent session id, send_message_streaming and the  *)
(* viewer's send handler return a failure and issue no HTTP request.       *)
C8_NoSessionNoRequest ==
    (pc # "idle" /\ client \in {"cli", "viewer"} /\ session \in {"None", ""})
        => /\ pc = "returned"
           /\ exit = "no_session"
           /\ result \in {"false", "none"}
           /\ sent = 0
           /\ body = <<>>

C8_Witness ==
    /\ pc = "returned"
    /\ client = "cli"
    /\ session = ""
    /\ message = <<"h", "i">>
    /\ result = "false"
    /\ calls = 2
    /\ posts = 1

---------------------------------------------------------------------------
C9_Invariant ==
    /\ sent \in {0, 1}
    /\ posts <= calls
    /\ pc \in {"posted", "reading"} => sent = 1
    /\ (pc = "returned" /\ exit \notin {"no_session", "no_message",
                                        "create_exception", "create_status"})
           => sent = 1
    /\ full_response = ConcatContent(body)

C9_Step ==
    /\ calls' = calls + 1 => posts' = posts + sent'
    /\ calls' = calls => (posts' = posts /\ sent' = sent)

(* C9: each invocation that gets past its validation issues exactly one    *)
(* POST to the chat endpoint, whatever its outcome, and none is ever       *)
(* repeated: the count of POSTs grows by one when such an invocation       *)
(* starts and at no other step; and the text of an invocation is the       *)
(* concatenation of the Content fragments of its own response only.        *)
C9_OnePostPerCall == []C9_Invariant /\ [][C9_Step]_vars

C9_Witness ==
    /\ pc = "returned"
    /\ calls = 2
    /\ posts = 2
    /\ exit = "stream_exception"
    /\ body = <<L_invalid, L_content(Frag6)>>
    /\ full_response = Frag6

---------------------------------------------------------------------------
(* C10: the timeout bounds the whole call: no invocation is still waiting  *)
(* for the response after the configured duration, and one that outlasts   *)
(* it without a terminal event ends with a timeout failure.                *)
C10_TimeoutBoundsCall ==
    /\ pc \in {"posted", "reading"} => clock <= Timeout(client)
    /\ (pc = "returned" /\ clock > Timeout(client)) => exit = "stream_exception"

---------------------------------------------------------------------------
(* C11: the connection opened by a streaming chat call is closed on every  *)
(* exit path: no invocation has returned while the connection of its       *)
(* response is still open.                                                  *)
C11_ConnectionClosedOnReturn == pc = "returned" => conn # "open"

---------------------------------------------------------------------------
\* a prefixed payload that parses but carries no type discriminator
LacksType(l) == l.raw = "object" /\ "type" \notin DOMAIN l.data

(* C13: a prefixed line whose payload has no type discriminator is skipped *)
(* like an unparseable one: it does not abort the stream, so a call whose  *)
(* last line was such a payload has ended only because the stream ended.   *)
C13_PayloadWithoutTypeSkipped ==
    (pc = "returned" /\ body # <<>> /\ LacksType(body[Len(body)]))
        => exit \in {"end_of_stream", "stream_exception"}

---------------------------------------------------------------------------
IsOther(l) == IsObject(l) /\ l.data["type"] \notin {"content", "done", "error"}

C14_Step ==
    (pc = "reading" /\ Len(body') = Len(body) + 1 /\ IsOther(body'[Len(body')]))
        => /\ pc' = "reading"
           /\ UNCHANGED <<full_response, result, printed, exit, errmsg, warnings>>

(* C14: a prefixed line whose payload parses with a type other than        *)
(* content, done and error is ignored: the step that reads it changes      *)
(* neither the text nor the outcome, and the decoding continues.           *)
C14_UnknownTypeIgnored == [][C14_Step]_vars

C14_Witness ==
    /\ pc = "returned"
    /\ client = "cli"
    /\ body = <<L_content(Frag5), L_other, L_done>>
    /\ full_response = Frag5
    /\ result = "true"

---------------------------------------------------------------------------
Prefixed(l) == l.raw # "empty" /\ l.raw # "plain"

\* ls with its empty and unprefixed lines removed
OnlyData(ls) == SelectSeq(ls, Prefixed)

---------------------------------------------------------------------------
(* C16 as stated: at the end of a stream without done,                     *)
(* test_streaming_with_real_content and send_message_streaming return True *)
(* whenever the accumulated text is non-empty.                             *)
C16_EndWithTextIsSuccess ==
    (pc = "returned" /\ client \in {"cli", "test"} /\ exit = "end_of_stream"
     /\ full_response # <<>>)
        => result = "true"

(* C16: at the end of a stream without done, send_message_streaming        *)
(* returns True exactly when the accumulated text is non-empty, and        *)
(* test_streaming_with_real_content exactly when it is longer than 10      *)
(* characters.                                                             *)
C16_EndOfStreamOutcome ==
    (pc = "returned" /\ exit = "end_of_stream")
        => /\ client = "cli" => (result = "true" <=> Len(full_response) > 0)
           /\ client = "test" => (result = "true" <=> Len(full_response) > 10)

C16_Witness ==
    /\ pc = "returned"
    /\ client = "test"
    /\ exit = "end_of_stream"
    /\ body = <<L_content(Frag5), L_content(Frag5)>>
    /\ result = "false"

---------------------------------------------------------------------------
---------------------------------------------------------------------------
\* what test_streaming_with_real_content returns from inside its try block
ExpectedTestResult ==
    IF exit \in {"done", "end_of_stream"} /\ Len(full_response) > MinRealContent
    THEN "true" ELSE "false"

(* C17: in test_streaming_with_real_content, once the session was created, *)
(* exactly one DELETE for it has been issued by the time the function      *)
(* returns, on every exit path (done, error event, non-200 status, end of  *)
(* stream, exception), and the value returned is the one the exit path     *)
(* computed whether that DELETE succeeded or failed.                       *)
C17_CleanupOnEveryExit ==
    (pc = "returned" /\ client = "test"
     /\ exit \notin {"create_exception", "create_status"})
        => /\ deleted = 1
           /\ cleanup \in {"deleted", "delete_failed"}
           /\ result = ExpectedTestResult

C17_Witness ==
    /\ pc = "returned"
    /\ client = "test"
    /\ exit = "done"
    /\ body = <<L_content(Frag6), L_content(Frag5), L_done>>
    /\ deleted = 1
    /\ cleanup = "delete_failed"
    /\ result = "true"

---------------------------------------------------------------------------
(* C19: test_quick_response returns True only if a done event was decoded  *)
(* and the accumulated text, stripped of surrounding whitespace, was       *)
(* non-empty at that moment; if the stream ends without done it returns    *)
(* False whatever text was accumulated.                                    *)
C19_QuickPassesOnlyOnDone ==
    (pc = "returned" /\ client = "quick")
        => /\ result = "true"
                  => /\ exit = "done"
                     /\ IsDone(body[Len(body)])
                     /\ strip(ConcatContent(body)) # <<>>
           /\ (exit = "done" /\ strip(ConcatContent(body)) = <<>>)
                  => result = "false"
           /\ exit = "end_of_stream" => result = "false"

C19_Witness ==
    /\ pc = "returned"
    /\ client = "quick"
    /\ exit = "done"
    /\ body = <<L_content(Blank), L_content(Blank), L_done>>
    /\ result = "false"

---------------------------------------------------------------------------
(* C12: two calls of send_message_streaming running at once on one         *)
(* APITester share no decode state: under every interleaving, the text,    *)
(* the diagnostics and the outcome of each call are those of the consumer  *)
(* run alone over the lines of that call's own response.                   *)
C12_CallsDoNotInterfere ==
    \A t \in Threads :
        LET f == frames[t]
            d == Decode("cli", f.body)
        IN  (f.pc \in {"reading", "returned"}
             /\ f.exit \notin {"no_session", "post_exception", "http_status"})
                => /\ f.full_response = d.text
                   /\ f.warnings = d.warn
                   /\ d.go = "return"
                          => /\ f.pc = "returned"
                             /\ f.result = d.result
                             /\ f.exit = d.exit
                             /\ f.errmsg = d.errmsg
                   /\ (d.go = "continue" /\ f.pc = "returned")
                          => \/ /\ f.exit = "end_of_stream"
                                /\ f.result = cli_end(d.text).result
                             \/ /\ f.exit = "stream_exception"
                                /\ f.result = "false"

C12_Witness ==
    /\ frames["A"].pc = "reading"
    /\ frames["A"].body = <<L_content(Frag5), L_invalid>>
    /\ frames["A"].full_response = Frag5
    /\ frames["B"].pc = "returned"
    /\ frames["B"].body = <<L_content(Frag6), L_error("boom")>>
    /\ frames["B"].full_response = Frag6
    /\ frames["B"].result = "false"

---------------------------------------------------------------------------
SessionScoped ==
    {"send_message_streaming", "get_session_info", "clear_session",
     "interrupt_session", "delete_session"}

C20_Step ==
    ops' = ops + 1
        => /\ (last'.op \in SessionScoped /\ current_session_id = "None")
                  => /\ last'.result = "false"
                     /\ last'.reqs = <<>>
                     /\ current_session_id' = "None"
           /\ \A i \in 1..Len(last'.reqs) :
                  last'.reqs[i].sid # "" => last'.reqs[i].sid \notin gone

(* C20: every session-scoped operation of APITester called while           *)
(* current_session_id is None returns False and sends no HTTP request;     *)
(* and once delete_session has succeeded, no request is sent for the       *)
(* deleted session until a new session with that id is created.            *)
C20_NoRequestWithoutSession == [][C20_Step]_vars

C20_Witness ==
    /\ gone = {"s1"}
    /\ current_session_id = "None"
    /\ last = [op |-> "get_session_info", result |-> "false", reqs |-> <<>>]

---------------------------------------------------------------------------
Creates == {"create_new_session", "create_session_with_config"}

\* the request of the last operation was answered with status 200
Answered200(sv) == ~sv.raised /\ sv.st = 200

C21_Step ==
    ops' = ops + 1
        => /\ current_session_id' # current_session_id
                  => /\ last'.op \in Creates \cup {"delete_session"}
                     /\ last'.reqs # <<>>
                     /\ Answered200(server')
           /\ last'.op \in Creates
                  => current_session_id' =
                         IF Answered200(server') /\ server'.id # "nokey"
                         THEN server'.id ELSE current_session_id
           /\ last'.op = "delete_session"
                  => current_session_id' =
                         IF last'.reqs # <<>> /\ Answered200(server')
                         THEN "None" ELSE current_session_id

(* C21: current_session_id changes only on success: the two create         *)
(* operations set it to the id of the response only when the status is     *)
(* 200, delete_session sets it to None only when the status is 200, and    *)
(* every other operation and every failed outcome leaves it unchanged.     *)
C21_SessionIdChangesOnSuccess == [][C21_Step]_vars

C21_Witness ==
    /\ last.op = "create_session_with_config"
    /\ last.result = "false"
    /\ server.st = 204
    /\ ~server.raised
    /\ server.id = "s2"
    /\ current_session_id = "s1"

---------------------------------------------------------------------------
\* the server behaviours the claim lists
Misbehaves(sv) ==
    \/ sv.raised
    \/ sv.st # 200
    \/ ~sv.complete
    \/ \E i \in 1..Len(sv.body) :
          /\ LacksType(sv.body[i])
          /\ \A j \in 1..(i - 1) : ~IsTerminal(sv.body[j])

(* C22: every APITester operation returns a boolean whatever the server    *)
(* does and propagates no exception: a connection error, a non-200 status, *)
(* a response missing an expected JSON field and a stream payload that     *)
(* raises while being decoded all end in the value False.                  *)
C22_AlwaysBoolean ==
    ops > 0
        => /\ last.result \in {"true", "false"}
           /\ (last.reqs # <<>> /\ Misbehaves(server)) => last.result = "false"

C22_Witness ==
    /\ last.op = "send_message_streaming"
    /\ last.reqs # <<>>
    /\ ~server.raised
    /\ server.st = 200
    /\ server.body = <<L_notype>>
    /\ last.result = "false"

---------------------------------------------------------------------------
SimpleSteps ==
    {"Mensagem Simples", "Info da Sessao", "Limpar Sessao",
     "Mensagem Pos-Limpeza", "Deletar Sessao"}

ConfigSteps == {"Teste com Config", "Listar Sessoes", "Limpeza Final"}

(* C23: in run_full_test the health check comes before every other         *)
(* request, and a failed health check ends the run with False and no       *)
(* session or chat request; the message, info, clear and delete steps of   *)
(* the simple session have run only if create_new_session returned True,   *)
(* and the message, list and final delete steps of the config session only *)
(* if create_session_with_config returned True.                            *)
C23_FullTestOrder ==
    LET rs == run.results
    IN  /\ run.reqs # <<>> => run.reqs[1].path = "/health"
        /\ rs # <<>> => rs[1].name = "Health Check"
        /\ (rs # <<>> /\ rs[1].ok = "false")
               => /\ run.pc = "returned"
                  /\ run.value = "false"
                  /\ Len(rs) = 1
                  /\ Len(run.reqs) = 1
        /\ \A i \in 1..Len(rs) :
               /\ rs[i].name \in SimpleSteps
                      => (i > 2 /\ rs[2] = [name |-> "Criar Sessao Simples",
                                            ok |-> "true"])
               /\ rs[i].name \in ConfigSteps
                      => \E j \in 1..(i - 1) :
                             rs[j] = [name |-> "Sessao com Config", ok |-> "true"]

C23_Witness ==
    /\ run.pc = "returned"
    /\ Len(run.results) = 6
    /\ run.results[2].ok = "false"
    /\ run.results[3].ok = "true"
    /\ run.results[6].name = "Limpeza Final"
    /\ run.value = "false"

---------------------------------------------------------------------------
(* C24: after any sequence of add_debug_log calls the buffer holds at most *)
(* its cap (500 entries in the viewer, 100 in the chat app), and it holds  *)
(* exactly the most recent entries in the order of insertion: the oldest   *)
(* are the ones dropped.                                                   *)
C24_LogBufferCapped ==
    /\ app = "viewer" => Len(debug_logs) <= 500
    /\ app = "chat" => Len(debug_logs) <= 100
    /\ Len(debug_logs) = IF appended <= Cap(app) THEN appended ELSE Cap(app)
    /\ \A i \in 1..Len(debug_logs) :
           debug_logs[i].n = appended - Len(debug_logs) + i

C24_Witness ==
    /\ app = "viewer"
    /\ appended = 502
    /\ Len(debug_logs) = 500
    /\ debug_logs[1].n = 3
    /\ debug_logs[500].n = 502

---------------------------------------------------------------------------
C25_Step ==
    (app = "viewer" /\ debug_mode' = debug_mode)
        => IF ~debug_mode /\ logcall' \notin {"ERROR", "error"}
           THEN debug_logs' = debug_logs
           ELSE /\ appended' = appended + 1
                /\ debug_logs' # <<>>
                /\ debug_logs'[Len(debug_logs')].n = appended'
                /\ \A i \in 1..(Len(debug_logs') - 1) :
                       debug_logs'[i].n = appended' - Len(debug_logs') + i

(* C25: in the viewer, while debug_mode is off a call of add_debug_log     *)
(* records an entry only when its level is ERROR in any letter case, and   *)
(* any other level leaves debug_logs unchanged; while debug_mode is on     *)
(* every call appends exactly one entry.                                   *)
C25_DebugModeGate == [][C25_Step]_vars

C25_Witness ==
    /\ app = "viewer"
    /\ ~debug_mode
    /\ logcall = "error"
    /\ appended = 2
    /\ debug_logs = <<[n |-> 1], [n |-> 2]>>

---------------------------------------------------------------------------
(* The chat app *)

\* a run of the script has just pressed the given button
Ran(op) == chat'.op = op /\ chat'.n = chat.n + 1

C26_Step ==
    Ran("clear_conversation")
        => /\ messages' = <<>>
           /\ sdk_client' = 0
           /\ connected' = FALSE
           /\ total_tokens' = [input |-> 0, output |-> 0]
           /\ total_cost' = 0
           /\ performance_metrics'
                  = Append(performance_metrics, "disconnect_client")
           /\ appended' > appended
           /\ Len(debug_logs') > Len(debug_logs)
           /\ SubSeq(debug_logs', 1, Len(debug_logs)) = debug_logs

(* C26: clear_conversation always ends with messages empty, client None,   *)
(* connected False, both token totals 0 and total_cost 0, also when        *)
(* client.disconnect() raises; debug_logs and performance_metrics keep     *)
(* their entries and gain the ones the call itself adds.                   *)
C26_ClearAlwaysResets == [][C26_Step]_vars

\* a conversation was cleared while client.disconnect() raised
C26_Witness ==
    /\ chat.op = "clear_conversation"
    /\ chat.do = "raises"
    /\ chat.n = 2
    /\ sdk.queries = 1
    /\ sdk.disconnects = 1
    /\ messages = <<>>
    /\ ~connected

(* C27: whenever a handler of the chat app has returned, connected = True  *)
(* implies that client is not None.                                        *)
C27_ConnectedHasClient == connected => sdk_client # 0

\* connected again, with a second client object, after a connection error
\* had reset the first
C27_Witness ==
    /\ connected
    /\ sdk_client = 2
    /\ sdk.created = 2
    /\ sdk.connects = 2
    /\ sdk.disconnects = 0
    /\ sdk.queries = 2
    /\ chat.op = "send_message"
    /\ chat.n = 2

C28_Step ==
    Ran("send_message")
        => IF chat'.connect_ret = "false"
           THEN /\ messages' = messages
                /\ sdk'.queries = sdk.queries
                /\ total_tokens' = total_tokens
                /\ total_cost' = total_cost
           ELSE LET n == Len(messages)
                IN  /\ Len(messages') \in {n + 1, n + 2}
                    /\ SubSeq(messages', 1, n) = messages
                    /\ messages'[n + 1].role = "user"
                    /\ sdk'.queries = sdk.queries + 1
                    /\ sdk'.seen = n + 1
                    /\ Len(messages') = n + 2
                           => /\ messages'[n + 2].role = "assistant"
                              /\ messages'[n + 2].content # <<>>
                              /\ messages'[n + 2].content
                                     = join(chat'.reply.parts)

(* C28: when connect_client returns False, send_message leaves messages,   *)
(* the token totals and the cost total as they were and sends no query;    *)
(* when it returns True, the user message is in messages by the time the   *)
(* query is sent, and an assistant message follows it only with a          *)
(* non-empty response text.                                                *)
C28_SendFrame == [][C28_Step]_vars

\* a send that failed to connect, after an answered send and one whose
\* query lost the connection
C28_Witness ==
    /\ chat.op = "send_message"
    /\ chat.connect_ret = "false"
    /\ chat.n = 3
    /\ sdk.queries = 2
    /\ Len(messages) = 3
    /\ messages[2].role = "assistant"
    /\ total_tokens.input = 3

\* the sum, over the assistant messages of ms, of the count their usage
\* stores under key (0 when the usage is None or lacks the key)
RECURSIVE StoredTokens(_, _)
StoredTokens(ms, key) ==
    IF ms = <<>> THEN 0
    ELSE (IF Head(ms).role = "assistant" THEN get(Head(ms).usage, key, 0)
          ELSE 0) + StoredTokens(Tail(ms), key)

C29_Totals ==
    /\ total_tokens.input = StoredTokens(messages, "input_tokens")
    /\ total_tokens.output = StoredTokens(messages, "output_tokens")

C29_Step ==
    /\ (total_tokens'.input > total_tokens.input
            \/ total_tokens'.output > total_tokens.output)
           => /\ Ran("send_message")
              /\ Len(messages') = Len(messages) + 2
              /\ messages'[Len(messages')].role = "assistant"
    /\ Ran("clear_conversation")
           => messages' = <<>> /\ total_tokens' = [input |-> 0, output |-> 0]
    /\ (total_tokens'.input < total_tokens.input
            \/ total_tokens'.output < total_tokens.output
            \/ Len(messages') < Len(messages))
           => Ran("clear_conversation")

(* C29: total_tokens.input and total_tokens.output always equal the sums   *)
(* of the input and output counts stored in the usage of the assistant     *)
(* messages in messages; a total grows only in a send_message that appends *)
(* an assistant message, and the totals go back to 0 exactly when          *)
(* clear_conversation empties messages.                                    *)
C29_TotalsMatchMessages == []C29_Totals /\ [][C29_Step]_vars

\* two answered sends, one usage with both counts and one with the input
\* count only
C29_Witness ==
    /\ chat.op = "send_message"
    /\ chat.n = 2
    /\ Len(messages) = 4
    /\ total_tokens = [input |-> 4, output |-> 2]
    /\ messages[2].usage # messages[4].usage

C30_Step ==
    (Ran("send_message") /\ connected)
        => /\ chat'.connect_ret = "true"
           /\ sdk'.created = sdk.created
           /\ sdk'.connects = sdk.connects
           /\ sdk_client' \in {sdk_client, 0}

(* C30: while connected is True, a call of connect_client returns True,    *)
(* creates no client object and does not call client.connect().            *)
C30_ConnectIdempotent == [][C30_Step]_vars

\* a second send on the connection of the first, at a moment when a call
\* of connect() would have raised
C30_Witness ==
    /\ chat.op = "send_message"
    /\ chat.co = "connect_raises"
    /\ chat.connect_ret = "true"
    /\ chat.n = 2
    /\ sdk.queries = 2
    /\ sdk.created = 1
    /\ sdk.connects = 1
    /\ connected

====
